---------------------------- MODULE Spec2Model ----------------------------
(***************************************************************************)
(* Conversation orchestration of the Arabic real-estate agent:             *)
(*   src/agent.py              RealEstateAgent (fact extractor, reference  *)
(*                             resolver, rule engine, phase dispatcher)    *)
(*   src/property_database.py  RealEstateListings.search (catalog matcher) *)
(*   src/config.py             ConversationPhase                           *)
(*   src/main.py               respond, chat (Gradio and Flask entry       *)
(*                             points, one shared agent)                   *)
(*   src/app.py                run_agent_cli and the process_message it    *)
(*                             installs on RealEstateAgent                 *)
(*                                                                         *)
(* A Python str is a sequence of symbols.  A symbol is one character       *)
(* (digits, ",", " ", "k", "m") or one whole word; the Arabic literals of  *)
(* the source are written in Latin transliteration:                        *)
(*   alf = الف (regex unit)     alf_h = ألف (label)     mlywn = مليون      *)
(*   jnyh = جنيه                msh = مش                hya = هي           *)
(*   dh = ده   dy = دي   alaqar = العقار   alard = العرض                   *)
(*   ghyr_wadh = غير واضح      acomma = ، (Arabic comma)                   *)
(* A Python dict is a function whose domain is its set of keys.            *)
(***************************************************************************)
EXTENDS Integers, Sequences, FiniteSets, TLC

VARIABLES
    user_info,                \* RealEstateAgent.user_info (the Slot Store)
    selected_properties,      \* RealEstateAgent.selected_properties
    last_mentioned_property,  \* RealEstateAgent.last_mentioned_property
    current_phase,            \* RealEstateAgent.current_phase
    phase_manager,            \* the phase held by the PhaseManager
    conversation_history,     \* the ConversationHistory's messages
    rules,                    \* RealEstateAgent.rules (loaded once)
    response,                 \* what the last call returned (or Raised)
    user_message,             \* the message argument of the last/pending call
    advice,                   \* result of a direct _apply_rule_logic call
    df,                       \* RealEstateListings.df (the catalog)
    filters,                  \* argument of RealEstateListings.search
    results,                  \* result of RealEstateListings.search
    relevant_knowledge,       \* what the knowledge retriever returned / knowledge argument
                              \* of a direct _generate_response call
    pc,                       \* "ready" before a direct call of a function, "done" after
    reasoning_returned,       \* what the reasoning engine returned in the last turn
    trace,                    \* the steps of the last turn, each with the values it saw
    program,                  \* the running host: "cli" (app.py) or "web" (main.py)
    shown                     \* what the host has given the user, turn by turn

vars == <<user_info, selected_properties, last_mentioned_property,
          current_phase, phase_manager, conversation_history, rules,
          response, user_message, advice, df, filters, results,
          relevant_knowledge, pc, reasoning_returned, trace, program, shown>>

agentVars == <<selected_properties, last_mentioned_property, current_phase,
               phase_manager, conversation_history, response>>
searchVars == <<df, filters, results>>
hostVars == <<reasoning_returned, trace, program, shown>>

-----------------------------------------------------------------------------
(* Python values *)

EmptyDict == [k \in {} |-> <<>>]
PyNone == [py |-> "None"]
Raised == <<"<exception>">>

Put(d, k, v) == [x \in (DOMAIN d) \cup {k} |-> IF x = k THEN v ELSE d[x]]
Update(d, e) == [x \in (DOMAIN d) \cup (DOMAIN e) |-> IF x \in DOMAIN e THEN e[x] ELSE d[x]]
Get(d, k, default) == IF k \in DOMAIN d THEN d[k] ELSE default

Min(S) == CHOOSE x \in S : \A y \in S : x <= y

\* `sub in s` for strings
Contains(s, sub) ==
    \/ sub = <<>>
    \/ \E i \in 1..(Len(s) - Len(sub) + 1) :
          s[i] = sub[1] /\ SubSeq(s, i, i + Len(sub) - 1) = sub

\* sub stands in s at position i
OccursAt(s, sub, i) == i + Len(sub) - 1 <= Len(s) /\ SubSeq(s, i, i + Len(sub) - 1) = sub

\* str.lower(): only the Latin letters of the vocabulary have case
LowerSym(c) ==
    CASE c = "K" -> "k"
      [] c = "M" -> "m"
      [] c = "VILLA" -> "villa"
      [] c = "SHOP" -> "shop"
      [] OTHER -> c
Lower(s) == [i \in 1..Len(s) |-> LowerSym(s[i])]

Digits == {"0", "1", "2", "3", "4", "5", "6", "7", "8", "9"}
DigitVal(c) ==
    CASE c = "0" -> 0 [] c = "1" -> 1 [] c = "2" -> 2 [] c = "3" -> 3
      [] c = "4" -> 4 [] c = "5" -> 5 [] c = "6" -> 6 [] c = "7" -> 7
      [] c = "8" -> 8 [] c = "9" -> 9
\* int() of a non-empty all-digit string
RECURSIVE IntOf(_)
IntOf(s) == IF s = <<>> THEN 0
            ELSE 10 * IntOf(SubSeq(s, 1, Len(s) - 1)) + DigitVal(s[Len(s)])
Whitespace == {" ", "\n"}

\* the longest run of symbols of class C that starts at position i (may be empty)
RunEnd(s, i, C) ==
    IF \E j \in i..Len(s) : s[j] \notin C
    THEN Min({j \in i..Len(s) : s[j] \notin C}) - 1
    ELSE Len(s)

-----------------------------------------------------------------------------
(* Fact Extractor: RealEstateAgent._basic_info_extraction *)

locations == <<
    <<"alqahira">>, <<"aliskandariya">>, <<"algiza">>, <<"almaadi">>,
    <<"madinat", " ", "nasr">>, <<"6", " ", "october">>, <<"altajammu">>,
    <<"alshuruq">>, <<"alubur">>, <<"alrehab">>, <<"madinaty">>,
    <<"alshaykh", " ", "zayed">>, <<"almuhandisin">>, <<"aldoqqi">>,
    <<"alzamalek">>, <<"wast", " ", "albalad">>, <<"masr", " ", "aljadida">>,
    <<"helwan">> >>

BudgetUnits == {"jnyh", "alf", "mlywn", "k", "m"}

\* re.search(r'(\d[\d,]*)\s*(unit)', message): the leftmost start that matches.
\* From a start i the digit/comma run and the whitespace run are maximal
\* (the classes are disjoint, so a shorter run cannot be followed by a unit).
BudgetMatchAt(message, i) ==
    /\ message[i] \in Digits
    /\ LET j == RunEnd(message, i + 1, Digits \cup {","})
           k == RunEnd(message, j + 1, Whitespace)
       IN  k + 1 <= Len(message) /\ message[k + 1] \in BudgetUnits
BudgetStarts(message) == {i \in 1..Len(message) : BudgetMatchAt(message, i)}
BudgetGroup1(message, i) == SubSeq(message, i, RunEnd(message, i + 1, Digits \cup {","}))
BudgetGroup2(message, i) ==
    message[RunEnd(message, RunEnd(message, i + 1, Digits \cup {","}) + 1, Whitespace) + 1]

\* str.replace(',', '')
StripCommas(s) == SelectSeq(s, LAMBDA c : c # ",")

ThousandLabel == <<"alf_h", " ", "jnyh">>
MillionLabel == <<"mlywn", " ", "jnyh">>
CurrencyLabel == <<"jnyh">>
BudgetString(amount, unit) ==
    amount \o <<" ">> \o (IF unit \in {"k", "alf"} THEN ThousandLabel
                          ELSE IF unit \in {"m", "mlywn"} THEN MillionLabel
                          ELSE CurrencyLabel)

\* property_types, in declaration order
property_types == <<
    [prop_type |-> <<"shqa">>,   keywords |-> << <<"shqa">>, <<"shqh">>, <<"apartment">> >>],
    [prop_type |-> <<"fila">>,   keywords |-> << <<"fila">>, <<"fila", "t">>, <<"villa">> >>],
    [prop_type |-> <<"dublex">>, keywords |-> << <<"dublex">>, <<"duplex">> >>],
    [prop_type |-> <<"studyu">>, keywords |-> << <<"studyu">>, <<"studio">> >>],
    [prop_type |-> <<"mahal">>,  keywords |-> << <<"mahal">>, <<"mahal", "at">>, <<"shop">> >>],
    [prop_type |-> <<"maktab">>, keywords |-> << <<"maktab">>, <<"makatib">>, <<"office">> >>] >>

\* mutant: the name standing first in the message wins
ExtractLocation_ByPosition(message, ui) ==
    LET hits == {i \in 1..Len(locations) :
                    Contains(message, locations[i]) /\ "location" \notin DOMAIN ui}
        pos(i) == Min({x \in 1..Len(message) : OccursAt(message, locations[i], x)})
    IN  IF hits = {} THEN ui
        ELSE Put(ui, "location",
                 locations[CHOOSE i \in hits : \A j \in hits : pos(i) <= pos(j)])

\* the location loop (agent.py 98-101)
ExtractLocation(message, ui) ==
    LET hits == {i \in 1..Len(locations) :
                    Contains(message, locations[i]) /\ "location" \notin DOMAIN ui}
    IN  IF hits = {} THEN ui ELSE Put(ui, "location", locations[Min(hits)])

\* mutant: the guard on an already stored budget is lost
ExtractBudget_Overwrite(message, ui) ==
    LET starts == BudgetStarts(message)
    IN  IF starts # {}
        THEN LET i == Min(starts)
             IN  Put(ui, "budget",
                     BudgetString(StripCommas(BudgetGroup1(message, i)), BudgetGroup2(message, i)))
        ELSE ui

\* the budget match (agent.py 103-109)
ExtractBudget(message, ui) ==
    LET starts == BudgetStarts(message)
    IN  IF starts # {} /\ "budget" \notin DOMAIN ui
        THEN LET i == Min(starts)
             IN  Put(ui, "budget",
                     BudgetString(StripCommas(BudgetGroup1(message, i)), BudgetGroup2(message, i)))
        ELSE ui

\* mutant: a later type with a matching keyword replaces the type already found
RECURSIVE ExtractType_LastWins(_, _, _)
ExtractType_LastWins(message_lower, ui, t) ==
    IF t > Len(property_types) THEN ui
    ELSE LET keywords == property_types[t].keywords
             hit == \E n \in 1..Len(keywords) :
                       Contains(message_lower, keywords[n])
                       /\ (t = 1 => "property_type" \notin DOMAIN ui)
             ui1 == IF hit THEN Put(ui, "property_type", property_types[t].prop_type) ELSE ui
         IN  ExtractType_LastWins(message_lower, ui1, t + 1)

\* the property type loops (agent.py 119-123), types t..6 still to scan;
\* the break leaves the keyword loop only
RECURSIVE ExtractType(_, _, _)
ExtractType(message_lower, ui, t) ==
    IF t > Len(property_types) THEN ui
    ELSE LET keywords == property_types[t].keywords
             hit == \E n \in 1..Len(keywords) :
                       Contains(message_lower, keywords[n]) /\ "property_type" \notin DOMAIN ui
             ui1 == IF hit THEN Put(ui, "property_type", property_types[t].prop_type) ELSE ui
         IN  ExtractType(message_lower, ui1, t + 1)

_basic_info_extraction(message, ui) ==
    ExtractType(Lower(message), ExtractBudget(message, ExtractLocation(message, ui)), 1)

-----------------------------------------------------------------------------
(* Reference Resolver: RealEstateAgent._is_reference_to_previous_property *)

vague_words == << <<"hya">>, <<"dh">>, <<"dy">>, <<"alaqar", " ", "dh">>, <<"alard", " ", "dh">> >>
negative_phrases == << <<"msh">>, <<"ma", " ", "agabny">>, <<"ma", " ", "agabany">>,
                       <<"ma", " ", "agabha">>, <<"ma", " ", "habbytha">> >>

\* re.search(word + '.*(neg1|neg2|...)', s): `.` matches anything but a newline
ReferencePatternMatches(s, word) ==
    \E i \in 1..Len(s) :
        /\ OccursAt(s, word, i)
        /\ \E j \in (i + Len(word))..Len(s) :
              /\ \E n \in 1..Len(negative_phrases) : OccursAt(s, negative_phrases[n], j)
              /\ \A x \in (i + Len(word))..(j - 1) : s[x] # "\n"

_is_reference_to_previous_property(message) ==
    LET message_lower == Lower(message)
    IN  \E w \in 1..Len(vague_words) : ReferencePatternMatches(message_lower, vague_words[w])

Unclear == [py |-> "str", value |-> <<"ghyr_wadh">>]
\* isinstance(v, dict), for the values a slot or a property reference can hold
IsDict(v) == "py" \notin DOMAIN v
\* truth value of None, a str wrapper or a dict
Truthy(v) == IF IsDict(v) THEN DOMAIN v # {} ELSE v.py = "str" /\ v.value # <<>>

-----------------------------------------------------------------------------
(* Rule Engine: RealEstateAgent._apply_rule_logic *)

BudgetThreshold == 500

\* re.findall(r'\d+', s): the digit runs of s, here the first one (empty if none)
FirstDigitRun(s) ==
    LET starts == {i \in 1..Len(s) : s[i] \in Digits}
    IN  IF starts = {} THEN <<>>
        ELSE SubSeq(s, Min(starts), RunEnd(s, Min(starts), Digits))

\* [r["response"] for r in rules.get("budget_advice", []) if r["condition"] == cond]
BudgetResponses(rls, cond) ==
    LET picked == SelectSeq(Get(rls, "budget_advice", <<>>), LAMBDA r : r.condition = cond)
    IN  [i \in 1..Len(picked) |-> picked[i].response]

\* mutant: the threshold itself counts as low
BudgetAdvice_Inclusive(ui, rls) ==
    LET budget_value == Get(ui, "budget", <<>>)
    IN  IF Contains(budget_value, <<"mlywn">>) THEN BudgetResponses(rls, "budget_high")
        ELSE IF Contains(budget_value, <<"alf_h">>)
        THEN LET run == FirstDigitRun(budget_value)
             IN  IF run = <<>> THEN <<>>
                 ELSE IF IntOf(run) <= BudgetThreshold
                 THEN BudgetResponses(rls, "budget_low")
                 ELSE BudgetResponses(rls, "budget_mid")
        ELSE <<>>

BudgetAdvice(ui, rls) ==
    LET budget_value == Get(ui, "budget", <<>>)
    IN  IF Contains(budget_value, <<"mlywn">>) THEN BudgetResponses(rls, "budget_high")
        ELSE IF Contains(budget_value, <<"alf_h">>)
        THEN LET run == FirstDigitRun(budget_value)
             IN  IF run = <<>> THEN <<>>            \* IndexError, swallowed
                 ELSE IF IntOf(run) < BudgetThreshold
                 THEN BudgetResponses(rls, "budget_low")
                 ELSE BudgetResponses(rls, "budget_mid")
        ELSE <<>>

\* str.strip()
RECURSIVE Strip(_)
Strip(s) == IF s # <<>> /\ s[1] \in Whitespace THEN Strip(Tail(s))
            ELSE IF s # <<>> /\ s[Len(s)] \in Whitespace THEN Strip(SubSeq(s, 1, Len(s) - 1))
            ELSE s
\* str.split(delim)
RECURSIVE Split(_, _)
Split(s, delim) ==
    IF \E i \in 1..Len(s) : s[i] = delim
    THEN LET i == Min({x \in 1..Len(s) : s[x] = delim})
         IN  <<SubSeq(s, 1, i - 1)>> \o Split(SubSeq(s, i + 1, Len(s)), delim)
    ELSE <<s>>

\* the responses of the property_priority rules whose feature occurs in tag f
PriorityResponses(rls, f) ==
    LET picked == SelectSeq(Get(rls, "property_priority", <<>>), LAMBDA r : Contains(f, r.feature))
    IN  [i \in 1..Len(picked) |-> picked[i].response]
RECURSIVE FeatureAdvice(_, _)
FeatureAdvice(features, rls) ==
    IF features = <<>> THEN <<>>
    ELSE PriorityResponses(rls, Head(features)) \o FeatureAdvice(Tail(features), rls)

RuleFeatures(ui, property_data) ==
    IF Truthy(property_data) /\ "features" \in DOMAIN property_data
    THEN LET parts == Split(property_data.features, "acomma")
         IN  [i \in 1..Len(parts) |-> Strip(parts[i])]
    ELSE IF "features" \in DOMAIN ui THEN ui["features"]
    ELSE <<>>

_apply_rule_logic(ui, property_data, rls) ==
    BudgetAdvice(ui, rls) \o FeatureAdvice(RuleFeatures(ui, property_data), rls)

-----------------------------------------------------------------------------
(* Phase Response Dispatcher: RealEstateAgent._generate_response and the  *)
(* per-phase renderers.  Each fixed Arabic phrase of a template is one    *)
(* symbol, named after the phrase.                                        *)

Phases == {"DISCOVERY", "SUMMARY", "SUGGESTION", "PERSUASION", "ALTERNATIVE", "URGENCY", "CLOSING"}
NoPhase == "None"

\* sep.join(parts)
RECURSIVE Join(_, _)
Join(parts, sep) ==
    IF parts = <<>> THEN <<>>
    ELSE IF Len(parts) = 1 THEN parts[1]
    ELSE parts[1] \o sep \o Join(Tail(parts), sep)

LocationLabel == <<"almakan">>
BudgetLabel == <<"almizaniya">>
TypeLabel == <<"naw", " ", "alaqar">>
ReadyToReview == <<"tamam! kda ana arft elly mhtagh, nragea elmalumat?">>

\* `not user_info.get(key)` for a slot holding a str
SlotMissing(ui, key) == Get(ui, key, <<>>) = <<>>

\* mutant: the budget is asked for before the location
_discovery_response_BudgetFirst(ui, knowledge) ==
    LET missing == (IF SlotMissing(ui, "budget") THEN <<BudgetLabel>> ELSE <<>>)
                   \o (IF SlotMissing(ui, "location") THEN <<LocationLabel>> ELSE <<>>)
                   \o (IF SlotMissing(ui, "property_type") THEN <<TypeLabel>> ELSE <<>>)
        prompt == Get(Get(knowledge, "phase_knowledge", EmptyDict), "suggested_questions", <<>>)
        extra == IF prompt # <<>> THEN <<"\n", "mathalan:", " ">> \o prompt[1] ELSE <<>>
    IN  IF missing # <<>>
        THEN <<"mumkin tqwly", " ">> \o Join(missing, <<",", " ">>)
                 \o <<"?", " ", "alashan aqdar asaadak bshakl afdal.">> \o extra
        ELSE ReadyToReview

_discovery_response(ui, knowledge) ==
    LET missing == (IF SlotMissing(ui, "location") THEN <<LocationLabel>> ELSE <<>>)
                   \o (IF SlotMissing(ui, "budget") THEN <<BudgetLabel>> ELSE <<>>)
                   \o (IF SlotMissing(ui, "property_type") THEN <<TypeLabel>> ELSE <<>>)
        prompt == Get(Get(knowledge, "phase_knowledge", EmptyDict), "suggested_questions", <<>>)
        extra == IF prompt # <<>> THEN <<"\n", "mathalan:", " ">> \o prompt[1] ELSE <<>>
    IN  IF missing # <<>>
        THEN <<"mumkin tqwly", " ">> \o Join(missing, <<",", " ">>)
                 \o <<"?", " ", "alashan aqdar asaadak bshakl afdal.">> \o extra
        ELSE ReadyToReview

SummaryHeader == <<"dy elmalumat elly gamaatha:", "\n">>
AdviceHeader == <<"\n", "\n", "nasiha:", "\n">>
ConfirmQuestion == <<"\n", "hal elkalam dh mazbut?">>

\* mutant: the advice heading is written even when there is no advice
_summary_response_AlwaysAdvice(ui, rls) ==
    LET summary == (IF "location" \in DOMAIN ui
                    THEN << <<"almawqi:", " ">> \o ui["location"] >> ELSE <<>>)
                   \o (IF "budget" \in DOMAIN ui
                       THEN << <<"almizaniya:", " ">> \o ui["budget"] >> ELSE <<>>)
                   \o (IF "property_type" \in DOMAIN ui
                       THEN << <<"alnaw:", " ">> \o ui["property_type"] >> ELSE <<>>)
        adv == _apply_rule_logic(ui, PyNone, rls)
    IN  SummaryHeader \o Join(summary, <<"\n">>)
            \o AdviceHeader \o Join(adv, <<"\n">>)
            \o ConfirmQuestion

_summary_response(ui, rls) ==
    LET summary == (IF "location" \in DOMAIN ui
                    THEN << <<"almawqi:", " ">> \o ui["location"] >> ELSE <<>>)
                   \o (IF "budget" \in DOMAIN ui
                       THEN << <<"almizaniya:", " ">> \o ui["budget"] >> ELSE <<>>)
                   \o (IF "property_type" \in DOMAIN ui
                       THEN << <<"alnaw:", " ">> \o ui["property_type"] >> ELSE <<>>)
        adv == _apply_rule_logic(ui, PyNone, rls)
    IN  SummaryHeader \o Join(summary, <<"\n">>)
            \o (IF adv # <<>> THEN AdviceHeader \o Join(adv, <<"\n">>) ELSE <<>>)
            \o ConfirmQuestion

NoMatchMessage == <<"maariftsh alaqi aqarat bilmuwasafat dy, theb nghayar shwaya fi eltalab?">>
SuggestHeader == <<"elaqarat dy mumkin tiagibak:", "\n">>
NotesHeader == <<"\n", "mulahazat:", "\n">>
AttentionQuestion == <<"\n", "hal fi wahid minhum shad intibahak?">>

\* f"- {prop['type']} في {prop['location']} بـ {prop['price']} جنيه\n"
PropertyLine(prop) ==
    <<"-", " ">> \o prop.type \o <<" ", "fi", " ">> \o prop.location
        \o <<" ", "bi", " ">> \o prop.price \o <<" ", "jnyh", "\n">>
\* prop['type'], prop['location'], prop['price'] raise KeyError on a missing key
LineRaises(prop) == ~({"type", "location", "price"} \subseteq DOMAIN prop)
RECURSIVE PropertyLines(_)
PropertyLines(props) ==
    IF props = <<>> THEN <<>> ELSE PropertyLine(Head(props)) \o PropertyLines(Tail(props))

\* mutant: finding nothing forgets what was selected before
_suggest_properties_ClearOnNoMatch(ui, knowledge, sel, last, rls) ==
    LET matching_properties == Get(knowledge, "relevant_properties", <<>>)
    IN  IF matching_properties = <<>>
        THEN [response |-> NoMatchMessage, user_info |-> ui,
              selected_properties |-> <<>>, last_mentioned_property |-> PyNone]
        ELSE [response |->
                  IF \E i \in 1..Len(matching_properties) : LineRaises(matching_properties[i])
                  THEN Raised
                  ELSE SuggestHeader \o PropertyLines(matching_properties) \o AttentionQuestion,
              user_info |-> ui,
              selected_properties |-> matching_properties,
              last_mentioned_property |-> matching_properties[1]]

\* mutant: the last mentioned property is only set the first time
_suggest_properties_KeepLast(ui, knowledge, sel, last, rls) ==
    LET matching_properties == Get(knowledge, "relevant_properties", <<>>)
    IN  IF matching_properties = <<>>
        THEN [response |-> NoMatchMessage, user_info |-> ui,
              selected_properties |-> sel, last_mentioned_property |-> last]
        ELSE [response |->
                  IF \E i \in 1..Len(matching_properties) : LineRaises(matching_properties[i])
                  THEN Raised
                  ELSE SuggestHeader \o PropertyLines(matching_properties) \o AttentionQuestion,
              user_info |-> ui,
              selected_properties |-> matching_properties,
              last_mentioned_property |-> IF last = PyNone THEN matching_properties[1] ELSE last]

\* The renderers return the reply (Raised when an exception leaves the call)
\* together with the slot store (handed over by reference) and the two agent
\* fields a renderer may assign.
_suggest_properties(ui, knowledge, sel, last, rls) ==
    LET matching_properties == Get(knowledge, "relevant_properties", <<>>)
    IN  IF matching_properties = <<>>
        THEN [response |-> NoMatchMessage, user_info |-> ui,
              selected_properties |-> sel, last_mentioned_property |-> last]
        ELSE LET first == matching_properties[1]
                 extra == _apply_rule_logic(ui, first, rls)
             IN  [response |->
                      IF \E i \in 1..Len(matching_properties) : LineRaises(matching_properties[i])
                      THEN Raised
                      ELSE SuggestHeader \o PropertyLines(matching_properties)
                               \o (IF extra # <<>> THEN NotesHeader \o Join(extra, <<"\n">>) ELSE <<>>)
                               \o AttentionQuestion,
                  user_info |-> ui,
                  selected_properties |-> matching_properties,
                  last_mentioned_property |-> first]

DefaultFeatures == <<"mumayizat raia">>
DefaultLocation == <<"makan mumtaz">>
PersuasionGeneric == <<"mumkin twadah eh elly msh agbak? nqdar niarid badil.">>
AlternativeReply == <<"mumkin niarid aleik ikhtiyarat tanya qariba min elly bithibbuh.">>
UrgencyReply == <<"elforas dy msh btistanna! theb nkammil igraat elmuayna?">>
ClosingReply == <<"tamam, ibatly ismak wa raqam tilifonak wa hankallimak fi aqrab waqt.">>
FallbackReply == <<"ana hina asaadak. theb tibda bi eh?">>

\* mutant: whatever refers_to holds is taken for a property
_persuasion_response_AnyReference(ui) ==
    LET referred == Get(ui, "refers_to", PyNone)
    IN  IF Truthy(referred)
        THEN <<"leh msh agbak? dh fih", " ">> \o Get(referred, "features", DefaultFeatures)
                 \o <<" ", "wa mawqiuh fi", " ">> \o Get(referred, "location", DefaultLocation)
                 \o <<".">>
        ELSE PersuasionGeneric

_persuasion_response(ui) ==
    LET referred == Get(ui, "refers_to", PyNone)
    IN  IF Truthy(referred) /\ IsDict(referred)
        THEN <<"leh msh agbak? dh fih", " ">> \o Get(referred, "features", DefaultFeatures)
                 \o <<" ", "wa mawqiuh fi", " ">> \o Get(referred, "location", DefaultLocation)
                 \o <<".">>
        ELSE PersuasionGeneric

\* mutant: PERSUASION forgets the last mentioned property once it has answered
_generate_response_PersuasionResets(phase, ui, knowledge, sel, last, rls) ==
    LET keep(reply) == [response |-> reply, user_info |-> ui,
                        selected_properties |-> sel, last_mentioned_property |-> last]
    IN  CASE phase = "DISCOVERY" -> keep(_discovery_response(ui, knowledge))
          [] phase = "SUMMARY" -> keep(_summary_response(ui, rls))
          [] phase = "SUGGESTION" -> _suggest_properties(ui, knowledge, sel, last, rls)
          [] phase = "PERSUASION" ->
                 [response |-> _persuasion_response(ui), user_info |-> ui,
                  selected_properties |-> sel, last_mentioned_property |-> PyNone]
          [] phase = "ALTERNATIVE" -> keep(AlternativeReply)
          [] phase = "URGENCY" -> keep(UrgencyReply)
          [] phase = "CLOSING" -> keep(ClosingReply)
          [] OTHER -> keep(FallbackReply)

_generate_response(phase, ui, knowledge, sel, last, rls) ==
    LET keep(reply) == [response |-> reply, user_info |-> ui,
                        selected_properties |-> sel, last_mentioned_property |-> last]
    IN  CASE phase = "DISCOVERY" -> keep(_discovery_response(ui, knowledge))
          [] phase = "SUMMARY" -> keep(_summary_response(ui, rls))
          [] phase = "SUGGESTION" -> _suggest_properties(ui, knowledge, sel, last, rls)
          [] phase = "PERSUASION" -> keep(_persuasion_response(ui))
          [] phase = "ALTERNATIVE" -> keep(AlternativeReply)
          [] phase = "URGENCY" -> keep(UrgencyReply)
          [] phase = "CLOSING" -> keep(ClosingReply)
          [] OTHER -> keep(FallbackReply)

-----------------------------------------------------------------------------
(* One turn: RealEstateAgent.process_message (agent.py 47-89) *)

MaxTurns == 2

\* ConversationHistory.add_user_message / add_assistant_message
add_user_message(history, content) == Append(history, [role |-> "user", content |-> content])
add_assistant_message(history, content) == Append(history, [role |-> "assistant", content |-> content])
UserTurns(history) == Cardinality({i \in 1..Len(history) : history[i].role = "user"})

\* mutant: the reference is stored as it is, None included
ResolveReference_NoSentinel(msg, ui, last) ==
    IF _is_reference_to_previous_property(msg) THEN Put(ui, "refers_to", last) ELSE ui

\* agent.py 75-77
ResolveReference(msg, ui, last) ==
    IF _is_reference_to_previous_property(msg)
    THEN Put(ui, "refers_to", IF Truthy(last) THEN last ELSE Unclear)
    ELSE ui

\* mutant: a slot that is already set is kept
MergeExtracted_KeepExisting(ui, result) ==
    LET extracted_info == Get(result, "extracted_info", EmptyDict)
    IN  IF DOMAIN extracted_info # {} THEN Update(extracted_info, ui) ELSE ui

\* agent.py 70-72: self.user_info.update(extracted_info)
MergeExtracted(ui, result) ==
    LET extracted_info == Get(result, "extracted_info", EmptyDict)
    IN  IF DOMAIN extracted_info # {} THEN Update(ui, extracted_info) ELSE ui

\* mutant: CLOSING is never left
UpdatePhase_ClosingSticks(result, phase) ==
    LET next_phase == Get(result, "next_phase", phase)
    IN  IF next_phase # NoPhase /\ next_phase # phase /\ phase # "CLOSING"
        THEN next_phase ELSE phase

\* mutant: a null next phase starts the funnel again
UpdatePhase_NullRestarts(result, phase) ==
    LET next_phase == Get(result, "next_phase", phase)
    IN  IF next_phase = NoPhase THEN "DISCOVERY"
        ELSE IF next_phase # phase THEN next_phase ELSE phase

\* agent.py 79-82: the phase the agent is in after the phase decision
UpdatePhase(result, phase) ==
    LET next_phase == Get(result, "next_phase", phase)
    IN  IF next_phase # NoPhase /\ next_phase # phase THEN next_phase ELSE phase

\* mutant: the phase manager is not told
set_current_phase_Forgotten(changed, next_phase, pm) == pm

\* agent.py 80-82: self.phase_manager.set_current_phase(next_phase), inside the if
set_current_phase(changed, next_phase, pm) == IF changed THEN next_phase ELSE pm

\* the reasoning engine raises instead of returning
ProviderRaises == [raises |-> "analyze"]
\* a step of a turn: its name, and the slot store, phase and history at that point
Step(name, ui, phase, history) ==
    [step |-> name, user_info |-> ui, phase |-> phase, history |-> history]

\* mutant: the reference is resolved after the reply has been rendered, against
\* the property that reply mentioned last
ProcessMessage_ResolveAfterRender(msg, knowledge, reasoning_result, ui, ui1, sel, last, phase, history, rls) ==
    LET history1 == add_user_message(history, msg)
        ui2 == MergeExtracted(ui1, reasoning_result)
        phase1 == UpdatePhase(reasoning_result, phase)
        r == _generate_response(phase1, ui2, knowledge, sel, last, rls)
        ui3 == ResolveReference(msg, ui2, r.last_mentioned_property)
    IN  [user_info |-> ui3,
         selected_properties |-> r.selected_properties,
         last_mentioned_property |-> r.last_mentioned_property,
         current_phase |-> phase1,
         phase_changed |-> phase1 # phase,
         conversation_history |->
             IF r.response = Raised THEN history1
             ELSE add_assistant_message(history1, r.response),
         response |-> r.response,
         trace |-> << Step("add_user_message", ui, phase, history1),
                      Step("extract", ui1, phase, history1),
                      Step("retrieve", ui1, phase, history1),
                      Step("analyze", ui1, phase, history1),
                      Step("merge", ui2, phase, history1),
                      Step("phase", ui2, phase1, history1),
                      Step("render", ui2, phase1, history1),
                      Step("resolve", ui3, phase1, history1) >>]

\* mutant: the user message is stored only together with the reply
ProcessMessage_UserStoredLate(msg, knowledge, reasoning_result, ui, ui1, sel, last, phase, history, rls) ==
    LET ui2 == MergeExtracted(ui1, reasoning_result)
        ui3 == ResolveReference(msg, ui2, last)
        phase1 == UpdatePhase(reasoning_result, phase)
        r == _generate_response(phase1, ui3, knowledge, sel, last, rls)
        history1 == add_user_message(history, msg)
    IN  [user_info |-> r.user_info,
         selected_properties |-> r.selected_properties,
         last_mentioned_property |-> r.last_mentioned_property,
         current_phase |-> phase1,
         phase_changed |-> phase1 # phase,
         conversation_history |->
             IF r.response = Raised THEN history1
             ELSE add_assistant_message(history1, r.response),
         response |-> r.response,
         trace |-> << Step("extract", ui1, phase, history),
                      Step("retrieve", ui1, phase, history),
                      Step("analyze", ui1, phase, history),
                      Step("merge", ui2, phase, history),
                      Step("resolve", ui3, phase, history),
                      Step("phase", ui3, phase1, history),
                      Step("render", ui3, phase1, history),
                      Step("add_user_message", ui3, phase1, history1) >>]

\* mutant: a turn whose rendering raises is rolled back, but for the stored user message
ProcessMessage_RolledBack(msg, knowledge, reasoning_result, ui, ui1, sel, last, phase, history, rls) ==
    LET history1 == add_user_message(history, msg)
        ui2 == MergeExtracted(ui1, reasoning_result)
        ui3 == ResolveReference(msg, ui2, last)
        phase1 == UpdatePhase(reasoning_result, phase)
        r == _generate_response(phase1, ui3, knowledge, sel, last, rls)
        called == << Step("add_user_message", ui, phase, history1),
                     Step("extract", ui1, phase, history1),
                     Step("retrieve", ui1, phase, history1),
                     Step("analyze", ui1, phase, history1) >>
    IN  IF reasoning_result = ProviderRaises
        THEN [user_info |-> ui1, selected_properties |-> sel, last_mentioned_property |-> last,
              current_phase |-> phase, phase_changed |-> FALSE,
              conversation_history |-> history1, response |-> Raised, trace |-> called]
        ELSE IF r.response = Raised
        THEN [user_info |-> ui, selected_properties |-> sel, last_mentioned_property |-> last,
              current_phase |-> phase, phase_changed |-> FALSE,
              conversation_history |-> history1, response |-> Raised,
              trace |-> called
                  \o << Step("merge", ui2, phase, history1),
                        Step("resolve", ui3, phase, history1),
                        Step("phase", ui3, phase1, history1),
                        Step("render", ui3, phase1, history1) >>]
        ELSE [user_info |-> r.user_info,
              selected_properties |-> r.selected_properties,
              last_mentioned_property |-> r.last_mentioned_property,
              current_phase |-> phase1,
              phase_changed |-> phase1 # phase,
              conversation_history |-> add_assistant_message(history1, r.response),
              response |-> r.response,
              trace |-> called
                  \o << Step("merge", ui2, phase, history1),
                        Step("resolve", ui3, phase, history1),
                        Step("phase", ui3, phase1, history1),
                        Step("render", ui3, phase1, history1),
                        Step("add_assistant_message", ui3, phase1,
                             add_assistant_message(history1, r.response)) >>]

\* The agent's fields after process_message(msg) on the slot store ui, the fact
\* extractor having left the slot store ui1 (line 54), the knowledge retriever
\* having returned `knowledge` and the reasoning engine `reasoning_result`; trace
\* lists the steps in the order of the statements (lines 48, 54, 56, 62, 72, 77,
\* 79, 86, 87).
ProcessMessage(msg, knowledge, reasoning_result, ui, ui1, sel, last, phase, history, rls) ==
    LET history1 == add_user_message(history, msg)
        ui2 == MergeExtracted(ui1, reasoning_result)
        ui3 == ResolveReference(msg, ui2, last)
        phase1 == UpdatePhase(reasoning_result, phase)
        r == _generate_response(phase1, ui3, knowledge, sel, last, rls)
        called == << Step("add_user_message", ui, phase, history1),
                     Step("extract", ui1, phase, history1),
                     Step("retrieve", ui1, phase, history1),
                     Step("analyze", ui1, phase, history1) >>
    IN  IF reasoning_result = ProviderRaises
        THEN [user_info |-> ui1,
              selected_properties |-> sel,
              last_mentioned_property |-> last,
              current_phase |-> phase,
              phase_changed |-> FALSE,
              conversation_history |-> history1,
              response |-> Raised,
              trace |-> called]
        ELSE [user_info |-> r.user_info,
              selected_properties |-> r.selected_properties,
              last_mentioned_property |-> r.last_mentioned_property,
              current_phase |-> phase1,
              phase_changed |-> phase1 # phase,
              conversation_history |->
                  IF r.response = Raised THEN history1
                  ELSE add_assistant_message(history1, r.response),
              response |-> r.response,
              trace |-> called
                  \o << Step("merge", ui2, phase, history1),
                        Step("resolve", ui3, phase, history1),
                        Step("phase", ui3, phase1, history1),
                        Step("render", ui3, phase1, history1) >>
                  \o (IF r.response = Raised THEN <<>>
                      ELSE << Step("add_assistant_message", ui3, phase1,
                                   add_assistant_message(history1, r.response)) >>)]

\* property records of the catalog, as the knowledge retriever hands them over
Villa == [type |-> <<"fila">>, location |-> <<"algiza">>, price |-> <<"9", "0", "0">>,
          features |-> <<"garden", "acomma", " ", "garage">>]
Flat == [type |-> <<"shqa">>, location |-> <<"alqahira">>, price |-> <<"4", "0", "0">>,
         features |-> <<"garage">>]
Bare == [type |-> <<"studyu">>, location |-> <<"almaadi">>, price |-> <<"1", "0", "0">>]
NoPrice == [type |-> <<"mahal">>, location |-> <<"helwan">>]

Questions == [suggested_questions |-> << <<"q1">>, <<"q2">> >>]
Knowledge == {
    EmptyDict,
    [phase_knowledge |-> Questions, relevant_properties |-> <<Villa, Flat>>],
    [relevant_properties |-> <<Bare, NoPrice>>] }

TurnMessages == {
    <<"ahlan">>,
    <<"fila", " ", "algiza", " ", "aw", " ", "alqahira", " ", "3", "0", "0", " ", "k">>,
    <<"shqa", " ", "almaadi", " ", "2", " ", "mlywn">>,
    <<"dy", " ", "msh", " ", "agbany">> }

\* what the reasoning engine may return: extracted slots and a next phase
ExtractedInfos == {
    [location |-> <<"almaadi">>],
    [features |-> << <<"garden">>, <<"big", " ", "garage">> >>,
     budget |-> <<"7", "0", "0", " ", "alf_h", " ", "jnyh">>] }

ReasoningResults ==
    {[extracted_info |-> EmptyDict, next_phase |-> NoPhase]}
    \cup {[next_phase |-> p] : p \in Phases}
    \cup {[extracted_info |-> e] : e \in ExtractedInfos}

\* the rule tables rules.json may hold ({} when the file is missing)
RulesJson == [
    budget_advice |-> <<
        [condition |-> "budget_high", response |-> <<"high1">>],
        [condition |-> "budget_low", response |-> <<"low1">>],
        [condition |-> "budget_mid", response |-> <<"mid1">>],
        [condition |-> "budget_high", response |-> <<"high2">>],
        [condition |-> "budget_low", response |-> <<"low2">>] >>,
    property_priority |-> <<
        [feature |-> <<"garden">>, response |-> <<"prio_garden">>],
        [feature |-> <<"garage">>, response |-> <<"prio_garage">>] >> ]
RuleTables == {EmptyDict, RulesJson}

\* RealEstateAgent.__init__ (agent.py 18-36): the fields besides the slot store
NewAgent ==
    /\ selected_properties = <<>>
    /\ last_mentioned_property = PyNone
    /\ phase_manager = "DISCOVERY"
    /\ current_phase = "DISCOVERY"
    /\ conversation_history = <<>>
    /\ response = <<>>
\* no function has been called directly
NoDirectCall == advice = <<>> /\ results = <<>> /\ relevant_knowledge = EmptyDict /\ pc = "ready"
\* RealEstateListings.__init__ on a missing file: an empty DataFrame
NoCatalog == df = <<>> /\ filters = EmptyDict
\* the agent is driven directly, by no host
NoHost == reasoning_returned = EmptyDict /\ trace = <<>> /\ program = "none" /\ shown = <<>>

Init ==
    /\ user_info = EmptyDict
    /\ user_message = <<>>
    /\ NewAgent
    /\ rules \in RuleTables
    /\ NoDirectCall
    /\ NoCatalog
    /\ NoHost

\* a turn, in the order of the code: the fact extractor, then what the knowledge
\* retriever and the reasoning engine return, then the rest of the handler
process_message(msg) ==
    /\ \E ui1 \in {_basic_info_extraction(msg, user_info)} :
       \E knowledge \in Knowledge, reasoning_result \in ReasoningResults :
       \E r \in {ProcessMessage(msg, knowledge, reasoning_result, user_info, ui1,
                                selected_properties, last_mentioned_property,
                                current_phase, conversation_history, rules)} :
           /\ user_info' = r.user_info
           /\ selected_properties' = r.selected_properties
           /\ last_mentioned_property' = r.last_mentioned_property
           /\ current_phase' = r.current_phase
           /\ phase_manager' = set_current_phase(r.phase_changed, r.current_phase, phase_manager)
           /\ conversation_history' = r.conversation_history
           /\ response' = r.response
    /\ user_message' = msg
    /\ UNCHANGED <<rules, advice, df, filters, results, relevant_knowledge, pc, hostVars>>

\* conversations of at most MaxTurns user messages
Next ==
    /\ UserTurns(conversation_history) < MaxTurns
    /\ \E msg \in TurnMessages : process_message(msg)

Spec == Init /\ [][Next]_vars

-----------------------------------------------------------------------------
(* Direct calls of the Fact Extractor on one Slot Store *)

MaxMsgLen == 3

MessageSymbols == {"alqahira", "algiza", "5", ",", " ", "k", "fila", "SHOP"}
SeqsUpTo(S, n) == UNION {[1..m -> S] : m \in 0..n}
Messages == SeqsUpTo(MessageSymbols, MaxMsgLen)
\* later messages of the conversation, each naming other facts
FollowUps == {
    <<"algiza", " ", "9", " ", "mlywn", " ", "maktab">>,
    <<"shqa", " ", "alqahira", " ", "1", ",", "0", "k">>,
    <<"ahlan">> }
\* slot stores a conversation can have reached before the call
SlotStores ==
    {EmptyDict,
     [location |-> <<"almaadi">>],
     [budget |-> <<"7", "0", "0", " ", "alf_h", " ", "jnyh">>],
     [property_type |-> <<"studyu">>],
     [location |-> <<"almaadi">>, property_type |-> <<"studyu">>],
     [location |-> <<"algiza">>, budget |-> <<"7", "0", "0", " ", "alf_h", " ", "jnyh">>,
      property_type |-> <<"studyu">>]}

ExtractInit ==
    /\ user_info \in SlotStores
    /\ user_message \in Messages
    /\ NewAgent
    /\ rules = EmptyDict
    /\ NoDirectCall
    /\ NoCatalog
    /\ NoHost

\* self._basic_info_extraction(user_message)
ExtractCall ==
    /\ pc = "ready"
    /\ user_info' = _basic_info_extraction(user_message, user_info)
    /\ pc' = "done"
    /\ UNCHANGED <<agentVars, rules, user_message, advice, searchVars, relevant_knowledge,
                   hostVars>>

\* the next message of the conversation arrives
NextMessage ==
    /\ pc = "done"
    /\ user_message' \in FollowUps
    /\ pc' = "ready"
    /\ UNCHANGED <<user_info, agentVars, rules, advice, searchVars, relevant_knowledge,
                   hostVars>>

ExtractNext == ExtractCall \/ NextMessage
SpecExtract == ExtractInit /\ [][ExtractNext]_vars

\* C1: once location, budget or property_type holds a value, every later Fact
\* Extractor call leaves that slot's value exactly as it was (first-writer-wins).
SlotNames == {"location", "budget", "property_type"}
C1_FirstWriterWins ==
    [][pc = "ready" =>
          \A k \in SlotNames :
              k \in DOMAIN user_info => k \in DOMAIN user_info' /\ user_info'[k] = user_info[k]]_vars
\* a call has run on a message naming another location, budget and type than the stored ones
C1_Witness ==
    /\ pc = "done"
    /\ user_message = <<"shqa", " ", "alqahira", " ", "1", ",", "0", "k">>
    /\ user_info = [location |-> <<"algiza">>,
                    budget |-> <<"7", "0", "0", " ", "alf_h", " ", "jnyh">>,
                    property_type |-> <<"studyu">>]

\* C10: when the message contains two or more gazetteer locations and the store has
\* no location, the call sets location to the contained name that comes earliest
\* in the gazetteer list, wherever the names stand in the message.
GazetteerHits(message) == {i \in 1..Len(locations) : Contains(message, locations[i])}
C10_GazetteerOrder ==
    [][(/\ pc = "ready"
        /\ "location" \notin DOMAIN user_info
        /\ Cardinality(GazetteerHits(user_message)) >= 2)
       => /\ "location" \in DOMAIN user_info'
          /\ \E i \in GazetteerHits(user_message) :
                /\ user_info'["location"] = locations[i]
                /\ \A j \in GazetteerHits(user_message) : i <= j]_vars
\* the later gazetteer entry stands first in the message, the earlier one was stored
C10_Witness ==
    /\ pc = "done"
    /\ Len(user_message) >= 2
    /\ user_message[1] = "algiza"
    /\ Contains(user_message, <<"alqahira">>)
    /\ "location" \in DOMAIN user_info
    /\ user_info["location"] = <<"alqahira">>

-----------------------------------------------------------------------------
(* Direct calls of the Rule Engine with no property *)

MaxDigits == 3
MaxBudgetLen == 3

AmountDigits == {"0", "4", "5", "9"}
Amounts == SeqsUpTo(AmountDigits, MaxDigits) \ {<<>>}
\* budgets as the Fact Extractor writes them
NormalizedBudgets == {a \o <<" ">> \o l : a \in Amounts, l \in {ThousandLabel, MillionLabel, CurrencyLabel}}
\* any other text a collaborator may store
BudgetSymbols == {"5", "0", " ", "alf_h", "mlywn", "jnyh", "alf"}
FreeBudgets == SeqsUpTo(BudgetSymbols, MaxBudgetLen)

RulesInit ==
    /\ user_info \in {EmptyDict} \cup {[budget |-> b] : b \in NormalizedBudgets \cup FreeBudgets}
    /\ user_message = <<>>
    /\ NewAgent
    /\ rules \in RuleTables
    /\ NoDirectCall
    /\ NoCatalog
    /\ NoHost

\* self._apply_rule_logic(user_info)
RulesCall ==
    /\ pc = "ready"
    /\ advice' = _apply_rule_logic(user_info, PyNone, rules)
    /\ pc' = "done"
    /\ UNCHANGED <<user_info, agentVars, rules, user_message, searchVars, relevant_knowledge,
                   hostVars>>

SpecRules == RulesInit /\ [][RulesCall]_vars

\* C7: with no property and no features, a budget with the million label yields
\* exactly the budget_high responses; one with the thousand label yields exactly
\* the budget_low responses when its integer is < 500 and exactly the budget_mid
\* responses when it is >= 500; an absent budget, one with neither label or one
\* without digits yields the empty sequence.
ResponsesFor(cond) ==
    IF DOMAIN rules = {} THEN <<>>
    ELSE CASE cond = "budget_high" -> << <<"high1">>, <<"high2">> >>
           [] cond = "budget_low" -> << <<"low1">>, <<"low2">> >>
           [] cond = "budget_mid" -> << <<"mid1">> >>
HasSymbol(s, c) == \E i \in 1..Len(s) : s[i] = c
C7_BudgetBranch ==
    pc = "done" =>
        LET b == IF "budget" \in DOMAIN user_info THEN user_info["budget"] ELSE <<>>
            digits == FirstDigitRun(b)
        IN  IF HasSymbol(b, "mlywn") THEN advice = ResponsesFor("budget_high")
            ELSE IF HasSymbol(b, "alf_h") /\ digits # <<>> /\ IntOf(digits) < 500
            THEN advice = ResponsesFor("budget_low")
            ELSE IF HasSymbol(b, "alf_h") /\ digits # <<>> /\ IntOf(digits) >= 500
            THEN advice = ResponsesFor("budget_mid")
            ELSE advice = <<>>
\* the budget "500 thousand" has been advised as budget_mid
C7_Witness ==
    /\ pc = "done"
    /\ user_info = [budget |-> <<"5", "0", "0", " ", "alf_h", " ", "jnyh">>]
    /\ advice = << <<"mid1">> >>

-----------------------------------------------------------------------------
(* Catalog Matcher: RealEstateListings.search (property_database.py 14-46) *)
(* A row of df is a record; its price is the text of the CSV cell.         *)

HeadCount == 3

\* int(text): an optional run of whitespace around a non-empty run of digits
IsIntText(s) == LET t == Strip(s) IN t # <<>> /\ \A i \in 1..Len(t) : t[i] \in Digits
\* pd.to_numeric(cell, errors='coerce') is a number, not NaN
IsNumeric(cell) == cell # <<>> /\ \A i \in 1..Len(cell) : cell[i] \in Digits

\* filters['budget'][0] if isinstance(filters['budget'], list) else filters['budget'];
\* an empty list raises IndexError.  A filter value is [py |-> "str", value |-> text]
\* or [py |-> "list", items |-> <<text, ...>>].
BudgetValueRaises(v) == v.py = "list" /\ v.items = <<>>
BudgetValue(v) == IF v.py = "list" THEN v.items[1] ELSE v.value
\* budget = int(str(budget_value).replace(",", "").strip()) succeeds
BudgetParses(v) == ~BudgetValueRaises(v) /\ IsIntText(StripCommas(BudgetValue(v)))
BudgetInt(v) == IntOf(Strip(StripCommas(BudgetValue(v))))

\* mutant: the budget filter keeps the rows that cost more than the budget
search_PriceAbove(catalog, flt) ==
    IF catalog = <<>> THEN <<>>
    ELSE LET r1 == IF "location" \in DOMAIN flt
                   THEN SelectSeq(catalog, LAMBDA row :
                            Contains(Lower(row.location), Lower(flt["location"])))
                   ELSE catalog
             r2 == IF "property_type" \in DOMAIN flt
                   THEN SelectSeq(r1, LAMBDA row :
                            Contains(Lower(row.type), Lower(flt["property_type"])))
                   ELSE r1
             r3 == IF "budget" \in DOMAIN flt /\ BudgetParses(flt["budget"])
                   THEN SelectSeq(r2, LAMBDA row :
                            IsNumeric(row.price) /\ IntOf(row.price) >= BudgetInt(flt["budget"]))
                   ELSE r2
             r4 == IF "bedrooms" \in DOMAIN flt /\ IsIntText(flt["bedrooms"])
                   THEN SelectSeq(r3, LAMBDA row : row.bedrooms = IntOf(Strip(flt["bedrooms"])))
                   ELSE r3
         IN  SubSeq(r4, 1, IF Len(r4) < HeadCount THEN Len(r4) ELSE HeadCount)

search(catalog, flt) ==
    IF catalog = <<>> THEN <<>>                                     \* self.df.empty
    ELSE LET r1 == IF "location" \in DOMAIN flt
                   THEN SelectSeq(catalog, LAMBDA row :
                            Contains(Lower(row.location), Lower(flt["location"])))
                   ELSE catalog
             r2 == IF "property_type" \in DOMAIN flt
                   THEN SelectSeq(r1, LAMBDA row :
                            Contains(Lower(row.type), Lower(flt["property_type"])))
                   ELSE r1
             \* a budget that does not parse raises inside the try: no filtering
             r3 == IF "budget" \in DOMAIN flt /\ BudgetParses(flt["budget"])
                   THEN SelectSeq(r2, LAMBDA row :
                            IsNumeric(row.price) /\ IntOf(row.price) <= BudgetInt(flt["budget"]))
                   ELSE r2
             r4 == IF "bedrooms" \in DOMAIN flt /\ IsIntText(flt["bedrooms"])
                   THEN SelectSeq(r3, LAMBDA row : row.bedrooms = IntOf(Strip(flt["bedrooms"])))
                   ELSE r3
         IN  SubSeq(r4, 1, IF Len(r4) < HeadCount THEN Len(r4) ELSE HeadCount)  \* head(3)

MaxCatalog == 4

Listings == {
    [type |-> <<"VILLA">>, location |-> <<"algiza">>, price |-> <<"9", "0", "0">>, bedrooms |-> 3],
    [type |-> <<"shqa">>, location |-> <<"new", " ", "algiza">>, price |-> <<"4", "0", "0">>, bedrooms |-> 2],
    [type |-> <<"shqa">>, location |-> <<"algiza">>, price |-> <<"call", " ", "us">>, bedrooms |-> 2],
    [type |-> <<"shqa">>, location |-> <<"alqahira">>, price |-> <<"4", "0", "0">>, bedrooms |-> 3] }
Catalogs == SeqsUpTo(Listings, MaxCatalog)

Str(text) == [py |-> "str", value |-> text]
BudgetFilters == {
    Str(<<"4", "0", "0">>), Str(<<" ", "1", ",", "0", "0", "0", " ">>), Str(<<"cheap">>),
    Str(<<"3", "9", "9">>),
    [py |-> "list", items |-> << <<"9", "0", "0">> >>], [py |-> "list", items |-> <<>>] }
\* every combination of absent and supplied filters
Filters ==
    UNION {
        { [k \in D |-> CASE k = "location" -> l [] k = "property_type" -> t
                         [] k = "budget" -> b [] k = "bedrooms" -> n] :
            l \in {<<"algiza">>}, t \in {<<"villa">>, <<"shqa">>},
            b \in BudgetFilters, n \in {<<"2">>, <<" ", "3">>, <<"two">>} }
        : D \in SUBSET {"location", "property_type", "budget", "bedrooms"} }

SearchInit ==
    /\ user_info = EmptyDict
    /\ user_message = <<>>
    /\ NewAgent
    /\ rules = EmptyDict
    /\ NoDirectCall
    /\ NoHost
    /\ df \in Catalogs
    /\ filters \in Filters

\* listings.search(filters)
SearchCall ==
    /\ pc = "ready"
    /\ results' = search(df, filters)
    /\ pc' = "done"
    /\ UNCHANGED <<user_info, agentVars, rules, user_message, advice, df, filters,
                   relevant_knowledge, hostVars>>

SpecSearch == SearchInit /\ [][SearchCall]_vars

\* C9: the result is the first min(3, k) rows, in catalog order, of the k rows that
\* satisfy all supplied filters (location, property_type, price <= budget, bedrooms
\* equality); an empty catalog gives an empty result; a budget or bedrooms value
\* that does not parse disables only that filter; a row with a non-numeric price
\* never passes an active budget filter.
\* The integers the filter values of the model stand for (none: 0 - 1).
NoInt == 0 - 1
BudgetMeant(v) ==
    CASE v = Str(<<"4", "0", "0">>) -> 400
      [] v = Str(<<" ", "1", ",", "0", "0", "0", " ">>) -> 1000
      [] v = Str(<<"3", "9", "9">>) -> 399
      [] v = [py |-> "list", items |-> << <<"9", "0", "0">> >>] -> 900
      [] OTHER -> NoInt
BedroomsMeant(v) == CASE v = <<"2">> -> 2 [] v = <<" ", "3">> -> 3 [] OTHER -> NoInt
PriceMeant(cell) ==
    CASE cell = <<"9", "0", "0">> -> 900 [] cell = <<"4", "0", "0">> -> 400 [] OTHER -> NoInt
RowPasses(row, flt) ==
    /\ "location" \in DOMAIN flt => Contains(Lower(row.location), Lower(flt["location"]))
    /\ "property_type" \in DOMAIN flt => Contains(Lower(row.type), Lower(flt["property_type"]))
    /\ ("budget" \in DOMAIN flt /\ BudgetMeant(flt["budget"]) # NoInt)
          => PriceMeant(row.price) # NoInt /\ PriceMeant(row.price) <= BudgetMeant(flt["budget"])
    /\ ("bedrooms" \in DOMAIN flt /\ BedroomsMeant(flt["bedrooms"]) # NoInt)
          => row.bedrooms = BedroomsMeant(flt["bedrooms"])
C9_Search ==
    pc = "done" =>
        LET sat == {i \in 1..Len(df) : RowPasses(df[i], filters)}
            k == Cardinality(sat)
            nth(n) == CHOOSE i \in sat : Cardinality({j \in sat : j <= i}) = n
        IN  /\ Len(results) = (IF k < 3 THEN k ELSE 3)
            /\ \A n \in 1..Len(results) : results[n] = df[nth(n)]
            /\ df = <<>> => results = <<>>
\* four rows pass a location and a budget filter; the first three are returned
C9_Witness ==
    /\ pc = "done"
    /\ DOMAIN filters = {"location", "budget"}
    /\ Len(df) = 4
    /\ \A i \in 1..4 : RowPasses(df[i], filters)
    /\ Len(results) = 3
    /\ results[1] # results[2]

-----------------------------------------------------------------------------
(* Claims about whole turns *)

\* a turn has been processed in this step
TurnStep == conversation_history' # conversation_history

\* C2: in every turn whose message matches the Reference Resolver pattern, refers_to
\* is present after the turn and never None: it is the property last mentioned
\* before the turn if there was one, otherwise the "unclear" sentinel.
C2_RefersTo ==
    [][(TurnStep /\ _is_reference_to_previous_property(user_message'))
       => /\ "refers_to" \in DOMAIN user_info'
          /\ user_info'["refers_to"] # PyNone
          /\ user_info'["refers_to"] =
                 (IF last_mentioned_property # PyNone THEN last_mentioned_property ELSE Unclear)]_vars
\* a complaint about "this one" after the villa had been suggested
C2_Witness ==
    /\ user_message = <<"dy", " ", "msh", " ", "agbany">>
    /\ "refers_to" \in DOMAIN user_info
    /\ user_info["refers_to"] = Villa
    /\ last_mentioned_property = Villa

-----------------------------------------------------------------------------
(* Direct calls of the Phase Response Dispatcher on an agent in mid-conversation *)

LowBudget == <<"3", "0", "0", " ", "alf_h", " ", "jnyh">>
MidBudget == <<"7", "0", "0", " ", "alf_h", " ", "jnyh">>
HighBudget == <<"2", " ", "mlywn", " ", "jnyh">>
FeatureTags == << <<"garden">>, <<"big", " ", "garage">> >>
SlotKeys == {"location", "budget", "property_type", "features", "refers_to"}
\* every combination of absent and set slots
RenderStores ==
    UNION {
        { [k \in D |-> CASE k = "location" -> l [] k = "budget" -> b [] k = "property_type" -> t
                         [] k = "features" -> f [] k = "refers_to" -> r] :
            l \in {<<"algiza">>}, b \in {LowBudget, MidBudget, HighBudget}, t \in {<<"fila">>},
            f \in {FeatureTags}, r \in {Unclear, Villa, Bare} }
        : D \in SUBSET SlotKeys }
\* what earlier SUGGESTION turns can have left behind
Suggested == {
    [selected_properties |-> <<>>, last_mentioned_property |-> PyNone],
    [selected_properties |-> <<Villa, Flat>>, last_mentioned_property |-> Villa],
    [selected_properties |-> <<Bare, NoPrice>>, last_mentioned_property |-> Bare] }
RenderKnowledge ==
    Knowledge \cup {[relevant_properties |-> <<>>], [relevant_properties |-> <<Flat, Bare, Villa>>]}

RenderInit ==
    /\ user_info \in RenderStores
    /\ \E sg \in Suggested :
          /\ selected_properties = sg.selected_properties
          /\ last_mentioned_property = sg.last_mentioned_property
    \* refers_to holds a property only after one has been suggested
    /\ ("refers_to" \in DOMAIN user_info /\ IsDict(user_info["refers_to"]))
           => last_mentioned_property # PyNone
    /\ current_phase \in Phases
    /\ phase_manager = current_phase
    /\ conversation_history = <<>>
    /\ response = <<>>
    /\ user_message = <<>>
    /\ rules \in RuleTables
    /\ advice = <<>> /\ results = <<>> /\ pc = "ready"
    /\ relevant_knowledge \in RenderKnowledge
    /\ NoCatalog
    /\ NoHost

\* self._generate_response(user_message, reasoning_result, relevant_knowledge)
RenderCall ==
    /\ pc = "ready"
    /\ \E r \in {_generate_response(current_phase, user_info, relevant_knowledge,
                                    selected_properties, last_mentioned_property, rules)} :
           /\ response' = r.response
           /\ user_info' = r.user_info
           /\ selected_properties' = r.selected_properties
           /\ last_mentioned_property' = r.last_mentioned_property
    /\ pc' = "done"
    /\ UNCHANGED <<current_phase, phase_manager, conversation_history, rules, user_message,
                   advice, searchVars, relevant_knowledge, hostVars>>

SpecRender == RenderInit /\ [][RenderCall]_vars

NoMatches(k) == "relevant_properties" \notin DOMAIN k \/ k["relevant_properties"] = <<>>

\* C3: rendering SUGGESTION when the knowledge holds no matching properties returns
\* the "no match" message and leaves selected_properties and
\* last_mentioned_property as they were, whatever they were.
C3_NoMatch ==
    [][(pc = "ready" /\ current_phase = "SUGGESTION" /\ NoMatches(relevant_knowledge))
       => /\ response' = NoMatchMessage
          /\ selected_properties' = selected_properties
          /\ last_mentioned_property' = last_mentioned_property]_vars
\* nothing matched (an empty list was supplied) after the villa and the flat had been selected
C3_Witness ==
    /\ pc = "done" /\ current_phase = "SUGGESTION"
    /\ relevant_knowledge = [relevant_properties |-> <<>>]
    /\ response = NoMatchMessage
    /\ selected_properties = <<Villa, Flat>>
    /\ last_mentioned_property = Villa

\* C4: rendering SUGGESTION with a non-empty list of matches sets selected_properties
\* to that list and last_mentioned_property to its first record, whatever they were;
\* the reply returned has one line per match, in list order.
ReplyLines(reply) == Split(reply, "\n")
C4_Suggest ==
    [][(pc = "ready" /\ current_phase = "SUGGESTION" /\ ~NoMatches(relevant_knowledge))
       => LET matches == relevant_knowledge["relevant_properties"]
          IN  /\ selected_properties' = matches
              /\ last_mentioned_property' = matches[1]
              /\ response' # Raised =>
                    /\ Cardinality({i \in 1..Len(ReplyLines(response')) :
                                       ReplyLines(response')[i] # <<>>
                                       /\ ReplyLines(response')[i][1] = "-"}) = Len(matches)
                    /\ \A i \in 1..Len(matches) :
                          ReplyLines(response')[i + 1] =
                              <<"-", " ">> \o matches[i].type \o <<" ", "fi", " ">>
                                  \o matches[i].location \o <<" ", "bi", " ">>
                                  \o matches[i].price \o <<" ", "jnyh">>]_vars
\* three matches have been listed; the flat, first in the list, is the last mentioned
C4_Witness ==
    /\ pc = "done" /\ current_phase = "SUGGESTION"
    /\ relevant_knowledge = [relevant_properties |-> <<Flat, Bare, Villa>>]
    /\ selected_properties = <<Flat, Bare, Villa>>
    /\ last_mentioned_property = Flat
    /\ response # Raised
    /\ Len(ReplyLines(response)) >= 4

\* C6: in DISCOVERY the reply lists exactly the labels of the slots among location,
\* budget, property_type that are not set, in that order; when none is missing the
\* reply is the "ready to review" prompt.
LabelHeads == {"almakan", "almizaniya", "naw"}
C6_Discovery ==
    (pc = "done" /\ current_phase = "DISCOVERY") =>
        LET listed == SelectSeq(response, LAMBDA c : c \in LabelHeads)
            expected == (IF "location" \in DOMAIN user_info THEN <<>> ELSE <<"almakan">>)
                        \o (IF "budget" \in DOMAIN user_info THEN <<>> ELSE <<"almizaniya">>)
                        \o (IF "property_type" \in DOMAIN user_info THEN <<>> ELSE <<"naw">>)
        IN  /\ listed = expected
            /\ expected = <<>> => response = ReadyToReview
\* only the location is set: the budget, then the property type are asked for
C6_Witness ==
    /\ pc = "done" /\ current_phase = "DISCOVERY"
    /\ user_info = [location |-> <<"algiza">>]
    /\ SelectSeq(response, LAMBDA c : c \in LabelHeads) = <<"almizaniya", "naw">>

\* the lines of a SUMMARY reply: the slot lines, then the lines under the advice heading
AdviceAt(reply) == {i \in 1..Len(ReplyLines(reply)) : ReplyLines(reply)[i] = <<"nasiha:">>}
AdviceSection(reply) ==
    IF AdviceAt(reply) = {} THEN <<>>
    ELSE SubSeq(ReplyLines(reply), Min(AdviceAt(reply)) + 1, Len(ReplyLines(reply)) - 1)
SlotSection(reply) ==
    SelectSeq(SubSeq(ReplyLines(reply), 2,
                     IF AdviceAt(reply) = {} THEN Len(ReplyLines(reply)) - 1
                     ELSE Min(AdviceAt(reply)) - 2),
              LAMBDA line : line # <<>>)
SlotLinesMeant ==
    (IF "location" \in DOMAIN user_info
     THEN << <<"almawqi:", " ">> \o user_info["location"] >> ELSE <<>>)
    \o (IF "budget" \in DOMAIN user_info
        THEN << <<"almizaniya:", " ">> \o user_info["budget"] >> ELSE <<>>)
    \o (IF "property_type" \in DOMAIN user_info
        THEN << <<"alnaw:", " ">> \o user_info["property_type"] >> ELSE <<>>)
BudgetAdviceMeant ==
    LET b == IF "budget" \in DOMAIN user_info THEN user_info["budget"] ELSE <<>>
    IN  IF HasSymbol(b, "mlywn") THEN ResponsesFor("budget_high")
        ELSE IF HasSymbol(b, "alf_h") /\ FirstDigitRun(b) # <<>> /\ IntOf(FirstDigitRun(b)) < 500
        THEN ResponsesFor("budget_low")
        ELSE IF HasSymbol(b, "alf_h") /\ FirstDigitRun(b) # <<>> THEN ResponsesFor("budget_mid")
        ELSE <<>>
\* the tags "garden" and "big garage" meet the rules for garden and garage
FeatureAdviceMeant ==
    IF DOMAIN rules # {} /\ "features" \in DOMAIN user_info
    THEN << <<"prio_garden">>, <<"prio_garage">> >> ELSE <<>>
PriorityTexts == {<<"prio_garden">>, <<"prio_garage">>}
SummaryFrame ==
    /\ SlotSection(response) = SlotLinesMeant
    /\ ReplyLines(response)[Len(ReplyLines(response))] = <<"hal elkalam dh mazbut?">>

\* C8 as stated: in SUMMARY the advice section holds only the budget-branch
\* responses and never a property_priority response, also when the features slot
\* is set; one line per present slot in the order location, budget, property_type;
\* no advice section when the advice is empty; the confirmation question ends the reply.
C8_Original ==
    (pc = "done" /\ current_phase = "SUMMARY") =>
        /\ AdviceSection(response) = BudgetAdviceMeant
        /\ \A i \in 1..Len(AdviceSection(response)) : AdviceSection(response)[i] \notin PriorityTexts
        /\ (AdviceAt(response) # {}) <=> (BudgetAdviceMeant # <<>>)
        /\ SummaryFrame

\* C8 (amended): in SUMMARY the advice section holds the budget-branch responses
\* followed, when the features slot is set, by the property_priority responses for
\* its tags, and no property_priority response when the features slot is absent;
\* one line per present slot in the order location, budget, property_type; no
\* advice section when that advice is empty; the confirmation question ends the reply.
C8_Summary ==
    (pc = "done" /\ current_phase = "SUMMARY") =>
        /\ AdviceSection(response) = BudgetAdviceMeant \o FeatureAdviceMeant
        /\ "features" \notin DOMAIN user_info =>
               \A i \in 1..Len(AdviceSection(response)) :
                   AdviceSection(response)[i] \notin PriorityTexts
        /\ (AdviceAt(response) # {}) <=> (BudgetAdviceMeant \o FeatureAdviceMeant # <<>>)
        /\ SummaryFrame
\* a low budget and two feature tags: the two budget_low responses, then the two
\* property_priority responses, under three slot lines
C8_Witness ==
    /\ pc = "done" /\ current_phase = "SUMMARY"
    /\ rules = RulesJson
    /\ DOMAIN user_info = {"location", "budget", "property_type", "features"}
    /\ user_info["budget"] = LowBudget
    /\ Len(SlotSection(response)) = 3
    /\ AdviceSection(response) = << <<"low1">>, <<"low2">>, <<"prio_garden">>, <<"prio_garage">> >>

-----------------------------------------------------------------------------
(* The dispatcher's frame, over whole turns *)

\* C5: the dispatcher never changes the Slot Store in any phase, and in every phase
\* other than SUGGESTION it leaves selected_properties and last_mentioned_property
\* unchanged; across any sequence of turns last_mentioned_property is written only
\* by the SUGGESTION rendering step (to the first of the properties it selected).
C5_Frame ==
    /\ [](\A phase \in Phases, knowledge \in Knowledge :
            \E r \in {_generate_response(phase, user_info, knowledge, selected_properties,
                                         last_mentioned_property, rules)} :
                /\ r.user_info = user_info
                /\ phase # "SUGGESTION" =>
                      /\ r.selected_properties = selected_properties
                      /\ r.last_mentioned_property = last_mentioned_property)
    /\ [][last_mentioned_property' # last_mentioned_property
          => /\ current_phase' = "SUGGESTION"
             /\ selected_properties' # <<>>
             /\ last_mentioned_property' = selected_properties'[1]]_vars
\* a PERSUASION turn has answered after a suggestion, and the suggestion's
\* properties are still in place
C5_Witness ==
    /\ current_phase = "PERSUASION"
    /\ UserTurns(conversation_history) = 2
    /\ Len(conversation_history) = 4
    /\ selected_properties = <<Villa, Flat>>
    /\ last_mentioned_property = Villa

-----------------------------------------------------------------------------
(* The hosts: the CLI loop of app.py, and respond and chat of main.py, which *)
(* share one agent                                                          *)

\* app.py 16-42: the process_message that app.py installs on RealEstateAgent:
\* no fact extractor, no knowledge retriever, no reference resolver; pm is the
\* phase the phase manager holds
PatchedProcessMessage(msg, reasoning_result, ui, sel, last, phase, pm, history, rls) ==
    LET history1 == add_user_message(history, msg)
        ui2 == MergeExtracted(ui, reasoning_result)
        next_phase == Get(reasoning_result, "next_phase", pm)
        change == next_phase # pm /\ next_phase # NoPhase
        phase1 == IF change THEN next_phase ELSE phase
        r == _generate_response(phase1, ui2, EmptyDict, sel, last, rls)
        called == << Step("add_user_message", ui, phase, history1),
                     Step("analyze", ui, pm, history1) >>
    IN  IF reasoning_result = ProviderRaises
        THEN [user_info |-> ui,
              selected_properties |-> sel,
              last_mentioned_property |-> last,
              current_phase |-> phase,
              phase_manager |-> pm,
              conversation_history |-> history1,
              response |-> Raised,
              trace |-> called]
        ELSE [user_info |-> r.user_info,
              selected_properties |-> r.selected_properties,
              last_mentioned_property |-> r.last_mentioned_property,
              current_phase |-> phase1,
              phase_manager |-> IF change THEN next_phase ELSE pm,
              conversation_history |->
                  IF r.response = Raised THEN history1
                  ELSE add_assistant_message(history1, r.response),
              response |-> r.response,
              trace |-> called
                  \o << Step("merge", ui2, phase, history1),
                        Step("phase", ui2, phase1, history1),
                        Step("render", ui2, phase1, history1) >>
                  \o (IF r.response = Raised THEN <<>>
                      ELSE << Step("add_assistant_message", ui2, phase1,
                                   add_assistant_message(history1, r.response)) >>)]

\* app.py 74, main.py 106, app.py 65
Apology == <<"hadath khata athna mualajat risalatak. hawil marra ukhra.">>
NotUnderstood == <<"udhran, lam afham risalatak. hal yumkinuk iadat siyaghatiha?">>
ExitWords == {<<"exit">>, <<"khuruj">>, <<"quit">>}
\* one thing given to the user: a reply, the apology, or the exception that left
\* the entry point
Shown(by, out) == [by |-> by, out |-> out]

\* the messages, retrieved knowledge and reasoning results of the hosted turns
HostMessages == {
    <<"dy", " ", "msh", " ", "agbany">>,
    <<"fila", " ", "algiza", " ", "3", "0", "0", " ", "k">> }
HostKnowledge == Knowledge \cup {[relevant_properties |-> <<Flat, Bare>>]}
HostResults == {
    [extracted_info |-> EmptyDict, next_phase |-> NoPhase],
    [next_phase |-> "SUGGESTION"],
    [next_phase |-> "CLOSING"],
    [extracted_info |-> [location |-> <<"almaadi">>]],
    ProviderRaises }

\* app.py 49-57 (start_phase DISCOVERY), main.py 28-36 (PhaseManager() may hold no
\* phase), agent.py 29
HostInit ==
    /\ program \in {"cli", "web"}
    /\ phase_manager \in (IF program = "cli" THEN {"DISCOVERY"} ELSE {"DISCOVERY", NoPhase})
    /\ current_phase = IF phase_manager = NoPhase THEN "DISCOVERY" ELSE phase_manager
    /\ user_info = EmptyDict
    /\ user_message = <<>>
    /\ selected_properties = <<>>
    /\ last_mentioned_property = PyNone
    /\ conversation_history = <<>>
    /\ response = <<>>
    /\ rules = RulesJson
    /\ reasoning_returned = EmptyDict /\ trace = <<>> /\ shown = <<>>
    /\ NoDirectCall
    /\ NoCatalog

\* the agent after a turn that left r, and what the collaborators were seen to return
TurnDone(msg, knowledge, result, r, pm) ==
    /\ user_info' = r.user_info
    /\ selected_properties' = r.selected_properties
    /\ last_mentioned_property' = r.last_mentioned_property
    /\ current_phase' = r.current_phase
    /\ phase_manager' = pm
    /\ conversation_history' = r.conversation_history
    /\ response' = r.response
    /\ user_message' = msg
    /\ relevant_knowledge' = knowledge
    /\ reasoning_returned' = result
    /\ trace' = r.trace

\* agent.process_message(message, state) as main.py calls it
AgentTurn(by, msg) ==
    \E ui1 \in {_basic_info_extraction(msg, user_info)} :
    \E knowledge \in HostKnowledge, result \in HostResults :
    \E r \in {ProcessMessage(msg, knowledge, result, user_info, ui1,
                             selected_properties, last_mentioned_property,
                             current_phase, conversation_history, rules)} :
        /\ TurnDone(msg, knowledge, result, r,
                    set_current_phase(r.phase_changed, r.current_phase, phase_manager))
        \* no try/except: an exception leaves the entry point
        /\ shown' = Append(shown, Shown(by, r.response))

\* main.py 69-77
respond(msg) ==
    /\ program = "web"
    /\ UserTurns(conversation_history) < MaxTurns
    /\ IF Strip(msg) = <<>>
       THEN UNCHANGED <<user_info, agentVars, user_message, relevant_knowledge,
                        reasoning_returned, trace, shown>>
       ELSE AgentTurn("respond", msg)
    /\ UNCHANGED <<rules, advice, searchVars, pc, program>>

\* main.py 93-112
chat(msg) ==
    /\ program = "web"
    /\ UserTurns(conversation_history) < MaxTurns
    /\ IF msg = <<>>
       THEN /\ shown' = Append(shown, Shown("chat", NotUnderstood))
            /\ UNCHANGED <<user_info, agentVars, user_message, relevant_knowledge,
                           reasoning_returned, trace>>
       ELSE AgentTurn("chat", msg)
    /\ UNCHANGED <<rules, advice, searchVars, pc, program>>

\* app.py 63-74: one round of the loop
run_agent_cli(msg) ==
    /\ program = "cli"
    /\ UserTurns(conversation_history) < MaxTurns
    /\ IF Lower(Strip(msg)) \in ExitWords
       THEN /\ program' = "exited"
            /\ UNCHANGED <<user_info, agentVars, user_message, relevant_knowledge,
                           reasoning_returned, trace, shown>>
       ELSE /\ \E result \in HostResults :
               \E r \in {PatchedProcessMessage(Strip(msg), result, user_info,
                                               selected_properties, last_mentioned_property,
                                               current_phase, phase_manager,
                                               conversation_history, rules)} :
                   /\ TurnDone(Strip(msg), EmptyDict, result, r, r.phase_manager)
                   /\ shown' = Append(shown, Shown("run_agent_cli",
                                          IF r.response = Raised THEN Apology ELSE r.response))
            /\ UNCHANGED program
    /\ UNCHANGED <<rules, advice, searchVars, pc>>

\* conversations of at most MaxTurns user messages
HostNext ==
    \/ \E msg \in HostMessages : respond(msg)
    \/ \E msg \in HostMessages : chat(msg)
    \/ \E msg \in HostMessages : run_agent_cli(msg)

SpecHost == HostInit /\ [][HostNext]_vars

\* the next phase the reasoning engine returned in the last turn (NoPhase when
\* it returned none, null, or raised)
ReturnedPhase(result) ==
    IF "next_phase" \in DOMAIN result THEN result["next_phase"] ELSE NoPhase
\* the places of a step in the trace of the last turn
StepAt(name) == {i \in 1..Len(trace) : trace[i].step = name}
Before(a, b) == \A i \in StepAt(a), j \in StepAt(b) : i < j

\* C11 as stated: once the current phase is CLOSING it remains CLOSING after every
\* later turn, whatever next phase the phase decision provider returns.
C11_Original ==
    [][current_phase = "CLOSING" => current_phase' = "CLOSING"]_vars

\* C11 (amended): once the current phase is CLOSING it remains CLOSING after every
\* turn in which the provider returns no next phase, null or CLOSING; when the
\* provider returns another phase the agent moves to that phase.
C11_Closing ==
    [][(TurnStep /\ current_phase = "CLOSING")
       => current_phase' =
              IF ReturnedPhase(reasoning_returned') \in {NoPhase, "CLOSING"}
              THEN "CLOSING" ELSE ReturnedPhase(reasoning_returned')]_vars
\* a turn began in CLOSING, the provider returned SUGGESTION, and the agent is
\* in SUGGESTION
C11_Witness ==
    /\ trace # <<>>
    /\ trace[1].phase = "CLOSING"
    /\ reasoning_returned = [next_phase |-> "SUGGESTION"]
    /\ current_phase = "SUGGESTION"

\* C12 as stated: a failure raised while a turn is processed is caught at the
\* turn boundary by the host and the user receives the fixed apology, at every
\* entry point that calls process_message.
C12_Original ==
    \A i \in 1..Len(shown) : shown[i].out # Raised

\* C13 as stated: within a turn the fact extractor changes the slot store, then
\* the reference resolver writes refers_to, then the knowledge is retrieved and
\* the phase decided, then the reply is rendered; the retriever and the phase
\* decision provider are called with the resolver's write already made.
C13_Original ==
    StepAt("resolve") # {} =>
        /\ Before("extract", "resolve")
        /\ Before("resolve", "retrieve")
        /\ Before("resolve", "analyze")
        /\ Before("retrieve", "render")
        /\ Before("analyze", "render")
        /\ _is_reference_to_previous_property(user_message) =>
              \A i \in StepAt("retrieve") \cup StepAt("analyze") :
                  /\ "refers_to" \in DOMAIN trace[i].user_info
                  /\ trace[i].user_info["refers_to"] = user_info["refers_to"]


\* C14: the history is append-only; every completed turn appends the incoming
\* message, before any other step, and then the reply it returns; the phase
\* decision provider of a turn reads a history that ends with that turn's user
\* message; after n completed turns the history is u1, a1, ..., un, an.
UserEntry(content) == [role |-> "user", content |-> content]
AssistantEntry(content) == [role |-> "assistant", content |-> content]
IsReply(out) == out # Raised /\ out # Apology
C14_History ==
    /\ [][/\ Len(conversation_history') >= Len(conversation_history)
          /\ SubSeq(conversation_history', 1, Len(conversation_history)) = conversation_history
          /\ TurnStep =>
                /\ trace'[1].step = "add_user_message"
                /\ trace'[1].history = Append(conversation_history, UserEntry(user_message'))
                /\ \A i \in 1..Len(trace') :
                      trace'[i].step = "analyze" =>
                          trace'[i].history =
                              Append(conversation_history, UserEntry(user_message'))
          /\ (TurnStep /\ response' # Raised) =>
                conversation_history' =
                    conversation_history
                        \o <<UserEntry(user_message'), AssistantEntry(response')>>]_vars
    /\ []((\A i \in 1..Len(shown) : IsReply(shown[i].out)) =>
            /\ Len(conversation_history) = 2 * Len(shown)
            /\ \A i \in 1..Len(shown) :
                  /\ conversation_history[2 * i - 1].role = "user"
                  /\ conversation_history[2 * i] = AssistantEntry(shown[i].out))
\* two turns have completed: u1, a1, u2, a2
C14_Witness ==
    /\ Len(shown) = 2
    /\ IsReply(shown[1].out) /\ IsReply(shown[2].out)
    /\ Len(conversation_history) = 4
    /\ conversation_history[3] = UserEntry(user_message)
    /\ conversation_history[4] = AssistantEntry(response)

\* C15: in each turn, if the provider returns a non-null next phase other than the
\* current phase, the current phase becomes that phase before rendering, and the
\* reply of that turn is rendered for the new phase; if it returns no next phase,
\* null or the current phase, the current phase is unchanged.
C15_PhaseFollows ==
    [][TurnStep =>
          /\ current_phase' =
                 IF ReturnedPhase(reasoning_returned') \in {NoPhase, current_phase}
                 THEN current_phase ELSE ReturnedPhase(reasoning_returned')
          /\ reasoning_returned' # ProviderRaises =>
                /\ \E i \in 1..Len(trace') :
                      trace'[i].step = "render" /\ trace'[i].phase = current_phase'
                /\ response' =
                       _generate_response(current_phase', user_info', relevant_knowledge',
                                          selected_properties, last_mentioned_property,
                                          rules).response]_vars
\* a turn began in DISCOVERY, the provider returned SUGGESTION, and the reply is
\* the SUGGESTION reply for no matches
C15_Witness ==
    /\ trace # <<>>
    /\ trace[1].phase = "DISCOVERY"
    /\ reasoning_returned = [next_phase |-> "SUGGESTION"]
    /\ current_phase = "SUGGESTION"
    /\ response = NoMatchMessage


\* C18: within a turn the slots the reasoning engine returns are merged into the
\* slot store after the fact extractor has run and replace any value the slot
\* had, so a location, budget or property type set in an earlier turn changes
\* when the engine returns another value for it.
ReturnedSlots(result) ==
    IF "extracted_info" \in DOMAIN result THEN result["extracted_info"] ELSE EmptyDict
C18_MergeOverrides ==
    [][TurnStep =>
          /\ \A k \in DOMAIN ReturnedSlots(reasoning_returned') :
                /\ k \in DOMAIN user_info'
                /\ user_info'[k] = ReturnedSlots(reasoning_returned')[k]
          /\ \A i, j \in 1..Len(trace') :
                (trace'[i].step = "extract" /\ trace'[j].step = "merge") => i < j]_vars
\* the turn began with the location algiza, set in an earlier turn; the engine
\* returned almaadi, and almaadi is the location now
C18_Witness ==
    /\ trace # <<>>
    /\ "location" \in DOMAIN trace[1].user_info
    /\ trace[1].user_info["location"] = <<"algiza">>
    /\ reasoning_returned = [extracted_info |-> [location |-> <<"almaadi">>]]
    /\ user_info["location"] = <<"almaadi">>

\* C19: if the agent's current phase and the phase the phase manager holds were
\* equal when the agent was constructed, they are equal after every turn; the
\* two are only ever updated together.
C19_PhaseInSync ==
    /\ (phase_manager = current_phase) => [](phase_manager = current_phase)
    /\ [][(current_phase' # current_phase \/ phase_manager' # phase_manager)
          => /\ current_phase' # current_phase
             /\ phase_manager' = current_phase']_vars
\* a turn has moved both to SUGGESTION
C19_Witness ==
    /\ trace # <<>>
    /\ trace[1].phase = "DISCOVERY"
    /\ current_phase = "SUGGESTION"
    /\ phase_manager = "SUGGESTION"

\* C20: when the reference resolver fires in a turn that also renders SUGGESTION
\* with a non-empty match list, refers_to after the turn is the property last
\* mentioned before the turn began (the "unclear" sentinel if none), while the
\* first match of that turn becomes the last mentioned property; hence refers_to
\* is a property record only after an earlier turn has rendered SUGGESTION with
\* at least one match.
C20_RefersToEarlier ==
    /\ [][(/\ TurnStep
           /\ _is_reference_to_previous_property(user_message')
           /\ \E i \in 1..Len(trace') : trace'[i].step = "resolve"
           /\ current_phase' = "SUGGESTION"
           /\ ~NoMatches(relevant_knowledge'))
          => /\ user_info'["refers_to"] =
                    (IF last_mentioned_property = PyNone THEN Unclear
                     ELSE last_mentioned_property)
             /\ last_mentioned_property' = relevant_knowledge'["relevant_properties"][1]]_vars
    /\ [](("refers_to" \in DOMAIN user_info /\ IsDict(user_info["refers_to"]))
            => /\ UserTurns(conversation_history) >= 2
               /\ selected_properties # <<>>)
\* the flat was last mentioned before the turn; the turn showed the villa first;
\* refers_to is the flat
C20_Witness ==
    /\ user_message = <<"dy", " ", "msh", " ", "agbany">>
    /\ current_phase = "SUGGESTION"
    /\ ~NoMatches(relevant_knowledge)
    /\ relevant_knowledge["relevant_properties"] = <<Villa, Flat>>
    /\ last_mentioned_property = Villa
    /\ "refers_to" \in DOMAIN user_info
    /\ user_info["refers_to"] = Flat
    /\ response # Raised

\* C16: in PERSUASION the reply is the templated rebuttal, carrying the referred
\* property's features and location, exactly when refers_to is set and is a
\* property record; when refers_to is absent or is the "unclear" sentinel the
\* reply is the generic request to clarify.
Rebuttal(features, location) ==
    <<"leh msh agbak? dh fih", " ">> \o features \o <<" ", "wa mawqiuh fi", " ">>
        \o location \o <<".">>
FieldOr(property, field, default) ==
    IF field \in DOMAIN property THEN property[field] ELSE default
RefersToProperty(ui) == "refers_to" \in DOMAIN ui /\ IsDict(ui["refers_to"])
C16_Persuasion ==
    [][(pc = "ready" /\ current_phase = "PERSUASION")
       => /\ RefersToProperty(user_info)
                => response' = Rebuttal(FieldOr(user_info["refers_to"], "features", DefaultFeatures),
                                        FieldOr(user_info["refers_to"], "location", DefaultLocation))
          /\ ~RefersToProperty(user_info) => response' = PersuasionGeneric
          /\ (response' = PersuasionGeneric) <=> ~RefersToProperty(user_info)]_vars
\* the rebuttal names the villa's features and location
C16_Witness ==
    /\ pc = "done"
    /\ current_phase = "PERSUASION"
    /\ "refers_to" \in DOMAIN user_info
    /\ user_info["refers_to"] = Villa
    /\ response = Rebuttal(Villa.features, Villa.location)
    /\ response # PersuasionGeneric

\* C17: on a slot store with no property_type, a message containing keywords of
\* several canonical types sets the slot to the type declared earliest in the
\* synonym table among those with a matching keyword; the scan over the later
\* types does not replace it.
TypeHits(message) ==
    {t \in 1..Len(property_types) :
        \E n \in 1..Len(property_types[t].keywords) :
            Contains(Lower(message), property_types[t].keywords[n])}
C17_EarliestType ==
    [][(/\ pc = "ready"
        /\ "property_type" \notin DOMAIN user_info
        /\ Cardinality(TypeHits(user_message)) >= 2)
       => /\ "property_type" \in DOMAIN user_info'
          /\ \E t \in TypeHits(user_message) :
                /\ user_info'["property_type"] = property_types[t].prop_type
                /\ \A u \in TypeHits(user_message) : t <= u]_vars
\* the shop keyword stands first in the message, the villa was stored
C17_Witness ==
    /\ pc = "done"
    /\ Len(user_message) >= 2
    /\ user_message[1] = "SHOP"
    /\ Contains(user_message, <<"fila">>)
    /\ "property_type" \in DOMAIN user_info
    /\ user_info["property_type"] = <<"fila">>

\* C21: a turn is not undone when rendering raises: the slots the extractor and
\* the reasoning engine supplied, the refers_to written by the resolver, the new
\* phase and the stored user message all stay; selected_properties and
\* last_mentioned_property already hold the new matches when SUGGESTION was being
\* rendered; no assistant message is stored, so the next turn puts its user
\* message right after this turn's.
RenderRaised ==
    /\ TurnStep
    /\ response' = Raised
    /\ \E i \in 1..Len(trace') : trace'[i].step = "render"
C21_NotAtomic ==
    /\ [][RenderRaised =>
            /\ conversation_history' = Append(conversation_history, UserEntry(user_message'))
            /\ \A k \in SlotNames :
                  k \in DOMAIN _basic_info_extraction(user_message', user_info)
                      => k \in DOMAIN user_info'
            /\ \A k \in DOMAIN ReturnedSlots(reasoning_returned') :
                  /\ k \in DOMAIN user_info'
                  /\ user_info'[k] = ReturnedSlots(reasoning_returned')[k]
            /\ (program = "web" /\ _is_reference_to_previous_property(user_message'))
                  => /\ "refers_to" \in DOMAIN user_info'
                     /\ user_info'["refers_to"] =
                            (IF last_mentioned_property = PyNone THEN Unclear
                             ELSE last_mentioned_property)
            /\ current_phase' =
                   IF ReturnedPhase(reasoning_returned') \in {NoPhase, current_phase}
                   THEN current_phase ELSE ReturnedPhase(reasoning_returned')
            /\ current_phase' # current_phase => phase_manager' = current_phase'
            /\ (current_phase' = "SUGGESTION" /\ ~NoMatches(relevant_knowledge'))
                  => /\ selected_properties' = relevant_knowledge'["relevant_properties"]
                     /\ last_mentioned_property' =
                            relevant_knowledge'["relevant_properties"][1]]_vars
    /\ [][(/\ TurnStep
           /\ conversation_history # <<>>
           /\ conversation_history[Len(conversation_history)].role = "user")
          => /\ Len(conversation_history') > Len(conversation_history)
             /\ conversation_history'[Len(conversation_history) + 1].role = "user"]_vars
\* the first turn, a reference to a property, moved to SUGGESTION and raised on
\* the record without a price; its slots, refers_to, phase and matches are still
\* there after the second turn, and the history is user, user, assistant
C21_Witness ==
    /\ Len(shown) = 2
    /\ shown[1] = Shown("respond", Raised)
    /\ shown[2].out = NoMatchMessage
    /\ Len(conversation_history) = 3
    /\ conversation_history[1].role = "user"
    /\ conversation_history[2].role = "user"
    /\ conversation_history[3] = AssistantEntry(NoMatchMessage)
    /\ current_phase = "SUGGESTION"
    /\ phase_manager = "SUGGESTION"
    /\ selected_properties = <<Bare, NoPrice>>
    /\ last_mentioned_property = Bare
    /\ "refers_to" \in DOMAIN user_info
    /\ user_info["refers_to"] = Unclear

=============================================================================
